---------------------------- MODULE Spec2Model ----------------------------
(***************************************************************************)
(* ColumnAliasManager (src/src/column_alias_manager.py): a registry that   *)
(* maps case-folded column aliases to canonical column names, with the     *)
(* DataFrame helpers to_canonical / restore_aliases and JSON persistence.  *)
(*                                                                         *)
(* A str is a sequence of one-character strings, so that str.casefold is   *)
(* computed character by character.  A Python dict whose iteration order   *)
(* matters (a mapping argument, a rename map, DataFrame.attrs["alias_map"])*)
(* is a sequence of <<key, value>> pairs with distinct keys, in insertion  *)
(* order.  self._aliases is a function from keys to values; where its      *)
(* iteration order shows (to_json) every order is considered.              *)
(***************************************************************************)
EXTENDS Naturals, Sequences, FiniteSets, TLC

VARIABLES
    aliases,   \* self._aliases : normalized alias -> canonical
    frozen,    \* self._frozen
    live,      \* TRUE iff __init__ returned an instance (it did not raise)
    last,      \* the last call: [op, args, err, ret]
    df,        \* the DataFrame the caller holds: [columns, attrs]
    ret        \* the DataFrame returned by the last DataFrame helper: <<>> or <<table>>

vars == <<aliases, frozen, live, last, df, ret>>

----------------------------------------------------------------------------
(* Bounds *)

\* longest mapping handed to __init__ / add_aliases, and longest alias
\* list of a group handed to add_alias_groups
MaxEntries == 2
\* widest DataFrame
MaxCols == 3
\* the labels of one resolve call are at most this many
MaxLabels == 2

----------------------------------------------------------------------------
(* Strings *)

qty == <<"q", "t", "y">>
Qty == <<"Q", "t", "y">>
amt == <<"a", "m", "t">>
quantity == <<"q", "u", "a", "n", "t", "i", "t", "y">>

\* the strings that callers pass as aliases
AliasNames == {qty, Qty, amt}
\* the strings that callers pass as canonical names
CanonicalNames == {quantity, Qty}
\* the strings that callers look up, and the column labels of a DataFrame
Names == AliasNames \cup CanonicalNames

Upper == <<"A", "B", "C", "D", "E", "F", "G", "H", "I", "J", "K", "L", "M",
           "N", "O", "P", "Q", "R", "S", "T", "U", "V", "W", "X", "Y", "Z">>
Lower == <<"a", "b", "c", "d", "e", "f", "g", "h", "i", "j", "k", "l", "m",
           "n", "o", "p", "q", "r", "s", "t", "u", "v", "w", "x", "y", "z">>

\* the case folding of the ASCII capitals
CaseFolding == [c \in {Upper[i] : i \in 1..Len(Upper)} |->
                   Lower[CHOOSE i \in 1..Len(Upper) : Upper[i] = c]]

\* the ASCII capital of each small letter
Capital == [c \in {Lower[i] : i \in 1..Len(Lower)} |->
               Upper[CHOOSE i \in 1..Len(Lower) : Lower[i] = c]]

\* str.casefold on one (ASCII) character
casefold_char(c) == IF c \in DOMAIN CaseFolding THEN CaseFolding[c] ELSE c

\* str.casefold
casefold(s) == [i \in 1..Len(s) |-> casefold_char(s[i])]

\* a plausible slip: str.swapcase in place of str.casefold (not idempotent)
swapcase(s) ==
    [i \in 1..Len(s) |->
        IF s[i] \in DOMAIN CaseFolding THEN CaseFolding[s[i]]
        ELSE IF s[i] \in DOMAIN Capital THEN Capital[s[i]]
        ELSE s[i]]

_normalize_swapcase(name) == swapcase(name)

\* ColumnAliasManager._normalize
_normalize(name) == casefold(name)

----------------------------------------------------------------------------
(* Outcomes of a call *)

NoError == "none"
\* RuntimeError raised by _check_frozen
FrozenError == "RuntimeError: ColumnAliasManager is frozen/immutable."
\* ValueError raised by add_alias
ConflictError == "ValueError: Alias already mapped"
\* ValueError raised by to_canonical
CollisionError == "ValueError: Alias(es) would overwrite existing canonical columns."
\* ValueError raised by restore_aliases
MissingRecordError == "ValueError: No 'alias_map' in DataFrame.attrs."

\* ColumnAliasManager._ATTR_KEY
_ATTR_KEY == "alias_map"

EmptyDict == [k \in {} |-> <<>>]

----------------------------------------------------------------------------
(* dict helpers: a dict in insertion order is a sequence of <<key, value>> *)

dict_keys(d) == {d[i][1] : i \in 1..Len(d)}

dict_get(d, k, default) ==
    IF k \in dict_keys(d)
    THEN d[CHOOSE i \in 1..Len(d) : d[i][1] = k][2]
    ELSE default

\* d[k] = v : an existing key keeps its place, a new key goes last
dict_set(d, k, v) ==
    IF k \in dict_keys(d)
    THEN [i \in 1..Len(d) |-> IF d[i][1] = k THEN <<k, v>> ELSE d[i]]
    ELSE Append(d, <<k, v>>)

\* d.pop(k, None)
dict_pop(d, k) == SelectSeq(d, LAMBDA kv : kv[1] # k)

\* sequences over S of length at most n
SeqUpTo(S, n) == UNION {[1..m -> S] : m \in 0..n}

\* dict literals over keys K and values V with at most n entries
Dicts(K, V, n) ==
    {d \in SeqUpTo(K \X V, n) :
        \A i, j \in 1..Len(d) : i # j => d[i][1] # d[j][1]}

----------------------------------------------------------------------------
(* The registry *)

\* a plausible slip: the frozen flag is never looked at
_check_frozen_never(frz) == NoError

\* _check_frozen: the error it raises, if any
_check_frozen(frz) == IF frz THEN FrozenError ELSE NoError

\* a plausible slip: the conflict test without "not overwrite"
add_alias_ignores_overwrite(al, frz, alias, canon, overwrite) ==
    LET key == _normalize(alias) IN
    IF _check_frozen(frz) # NoError
    THEN [aliases |-> al, err |-> FrozenError]
    ELSE IF key \in DOMAIN al /\ al[key] # canon
         THEN [aliases |-> al, err |-> ConflictError]
         ELSE [aliases |-> [k \in DOMAIN al \cup {key} |->
                               IF k = key THEN canon ELSE al[k]],
               err |-> NoError]

\* a plausible slip: the alias is stored as given, not normalized
add_alias_raw_key(al, frz, alias, canon, overwrite) ==
    LET key == alias IN
    IF _check_frozen(frz) # NoError
    THEN [aliases |-> al, err |-> FrozenError]
    ELSE IF ~overwrite /\ key \in DOMAIN al /\ al[key] # canon
         THEN [aliases |-> al, err |-> ConflictError]
         ELSE [aliases |-> [k \in DOMAIN al \cup {key} |->
                               IF k = key THEN canon ELSE al[k]],
               err |-> NoError]

\* add_alias: the map afterwards and the error raised
add_alias(al, frz, alias, canon, overwrite) ==
    LET key == _normalize(alias) IN
    IF _check_frozen(frz) # NoError
    THEN [aliases |-> al, err |-> FrozenError]
    ELSE IF ~overwrite /\ key \in DOMAIN al /\ al[key] # canon
         THEN [aliases |-> al, err |-> ConflictError]
         ELSE [aliases |-> [k \in DOMAIN al \cup {key} |->
                               IF k = key THEN canon ELSE al[k]],
               err |-> NoError]

\* a plausible slip: the batch passes overwrite=True on to add_alias
RECURSIVE add_aliases_forces_overwrite(_, _, _, _)
add_aliases_forces_overwrite(al, frz, mapping, overwrite) ==
    IF mapping = <<>>
    THEN [aliases |-> al, err |-> NoError]
    ELSE LET r == add_alias(al, frz, Head(mapping)[1], Head(mapping)[2], TRUE)
         IN IF r.err # NoError
            THEN r
            ELSE add_aliases_forces_overwrite(r.aliases, frz, Tail(mapping), overwrite)

\* a plausible slip: the batch works on a copy and binds nothing when an
\* item raises
RECURSIVE add_aliases_on_copy(_, _, _, _, _)
add_aliases_on_copy(orig, al, frz, mapping, overwrite) ==
    IF mapping = <<>>
    THEN [aliases |-> al, err |-> NoError]
    ELSE LET r == add_alias(al, frz, Head(mapping)[1], Head(mapping)[2], overwrite)
         IN IF r.err # NoError
            THEN [aliases |-> orig, err |-> r.err]
            ELSE add_aliases_on_copy(orig, r.aliases, frz, Tail(mapping), overwrite)

add_aliases_atomic(al, frz, mapping, overwrite) ==
    add_aliases_on_copy(al, al, frz, mapping, overwrite)

\* add_aliases: add_alias on each item in the mapping's order, up to the
\* first that raises
RECURSIVE add_aliases(_, _, _, _)
add_aliases(al, frz, mapping, overwrite) ==
    IF mapping = <<>>
    THEN [aliases |-> al, err |-> NoError]
    ELSE LET r == add_alias(al, frz, Head(mapping)[1], Head(mapping)[2], overwrite)
         IN IF r.err # NoError
            THEN r
            ELSE add_aliases(r.aliases, frz, Tail(mapping), overwrite)

\* the inner loop of add_alias_groups, over one group's aliases
RECURSIVE add_group(_, _, _, _, _)
add_group(al, frz, canon, group, overwrite) ==
    IF group = <<>>
    THEN [aliases |-> al, err |-> NoError]
    ELSE LET r == add_alias(al, frz, Head(group), canon, overwrite)
         IN IF r.err # NoError
            THEN r
            ELSE add_group(r.aliases, frz, canon, Tail(group), overwrite)

\* add_alias_groups: groups is a dict canonical -> sequence of aliases
RECURSIVE add_alias_groups(_, _, _, _)
add_alias_groups(al, frz, groups, overwrite) ==
    IF groups = <<>>
    THEN [aliases |-> al, err |-> NoError]
    ELSE LET r == add_group(al, frz, Head(groups)[1], Head(groups)[2], overwrite)
         IN IF r.err # NoError
            THEN r
            ELSE add_alias_groups(r.aliases, frz, Tail(groups), overwrite)

\* a plausible slip: remove_alias without its _check_frozen
remove_alias_unchecked(al, frz, alias) ==
    [aliases |-> [k \in DOMAIN al \ {_normalize(alias)} |-> al[k]],
     err |-> NoError]

\* remove_alias
remove_alias(al, frz, alias) ==
    IF _check_frozen(frz) # NoError
    THEN [aliases |-> al, err |-> FrozenError]
    ELSE [aliases |-> [k \in DOMAIN al \ {_normalize(alias)} |-> al[k]],
          err |-> NoError]

\* clear
clear(al, frz) ==
    IF _check_frozen(frz) # NoError
    THEN [aliases |-> al, err |-> FrozenError]
    ELSE [aliases |-> EmptyDict, err |-> NoError]

\* a plausible slip: the folded key is returned for an unknown name
canonical_returns_key(al, name) ==
    IF _normalize(name) \in DOMAIN al THEN al[_normalize(name)] ELSE _normalize(name)

\* canonical: self._aliases.get(self._normalize(name), name)
canonical(al, name) ==
    IF _normalize(name) \in DOMAIN al THEN al[_normalize(name)] ELSE name

\* a column label: a str, or another hashable (the int 42, the bytes b"qty")
\* written with its characters
str(s) == [str |-> TRUE, v |-> s]
nonstr(s) == [str |-> FALSE, v |-> s]

\* isinstance(col, str)
isinstance_str(col) == col.str

\* a plausible slip: "if not columns", so that an empty list gives None
resolve_none_for_empty(al, columns) ==
    IF columns = <<>> \/ columns = << <<>> >>
    THEN <<>>
    ELSE << [i \in 1..Len(columns[1]) |->
               IF isinstance_str(columns[1][i])
               THEN str(canonical(al, columns[1][i].v))
               ELSE columns[1][i]] >>

\* resolve: None (written <<>>) for None, and otherwise the list (written
\* <<list>>) of the labels, each str replaced by its canonical name
resolve(al, columns) ==
    IF columns = <<>>
    THEN <<>>
    ELSE << [i \in 1..Len(columns[1]) |->
               IF isinstance_str(columns[1][i])
               THEN str(canonical(al, columns[1][i].v))
               ELSE columns[1][i]] >>

\* __contains__
__contains__(al, alias) == _normalize(alias) \in DOMAIN al

\* __init__: the fields it leaves and the error it raises
__init__(mapping, frz) ==
    LET r == IF mapping # <<>>
             THEN add_aliases(EmptyDict, frz, mapping, FALSE)
             ELSE [aliases |-> EmptyDict, err |-> NoError]
    IN [aliases |-> r.aliases, frozen |-> frz, err |-> r.err]

----------------------------------------------------------------------------
(* Persistence: the JSON text is a sequence of tokens *)

\* the items of self._aliases in one of its possible iteration orders
ItemOrders(al) ==
    {d \in [1..Cardinality(DOMAIN al) -> {<<k, al[k]>> : k \in DOMAIN al}] :
        \A i, j \in 1..Len(d) : i # j => d[i] # d[j]}

\* json.dumps of a dict, given its items in iteration order
RECURSIVE json_members(_)
json_members(items) ==
    IF items = <<>> THEN <<>>
    ELSE <<Head(items)[1], ":", Head(items)[2]>>
         \o (IF Tail(items) = <<>> THEN <<>> ELSE <<",">>)
         \o json_members(Tail(items))

json_dumps(items) == <<"{">> \o json_members(items) \o <<"}">>

\* json.loads of an object: a dict in the text's order (a repeated key keeps
\* its first place and its last value)
RECURSIVE json_parse_members(_, _)
json_parse_members(toks, d) ==
    IF Len(toks) < 3 THEN d
    ELSE json_parse_members(
            IF Len(toks) > 3 THEN SubSeq(toks, 5, Len(toks)) ELSE <<>>,
            dict_set(d, toks[1], toks[3]))

json_loads(s) == json_parse_members(SubSeq(s, 2, Len(s) - 1), <<>>)

\* to_json, for one iteration order of self._aliases
to_json(items) == json_dumps(items)

\* from_json: cls(json.loads(s))
from_json(s) == __init__(json_loads(s), FALSE)

----------------------------------------------------------------------------
(* DataFrames: [id, columns, attrs].  id tells objects apart, columns is   *)
(* the sequence of column labels, attrs is the DataFrame.attrs bag.        *)

Range(s) == {s[i] : i \in 1..Len(s)}

\* df.copy(): another object with the same labels and its own copy of attrs
copy(t) == [id |-> 1 - t.id, columns |-> t.columns, attrs |-> t.attrs]

\* df.rename(columns=mapper, inplace=True): a label that is a key of mapper
\* is replaced by its value
rename(t, mapper) ==
    [t EXCEPT !.columns =
        [i \in 1..Len(t.columns) |-> dict_get(mapper, t.columns[i], t.columns[i])]]

\* {col: self._aliases[self._normalize(col)] for col in df.columns
\*  if self._normalize(col) in self._aliases}
RECURSIVE rename_map_of(_, _, _)
rename_map_of(al, cols, d) ==
    IF cols = <<>> THEN d
    ELSE rename_map_of(al, Tail(cols),
            IF _normalize(Head(cols)) \in DOMAIN al
            THEN dict_set(d, Head(cols), al[_normalize(Head(cols))])
            ELSE d)

\* a plausible slip: the test without its "and alias != canonical"
collisions_of_flags_noop(rename_map, cols) ==
    LET folded == {_normalize(c) : c \in Range(cols)}
        hit == SelectSeq(rename_map, LAMBDA kv : _normalize(kv[2]) \in folded)
    IN [i \in 1..Len(hit) |-> hit[i][1]]

\* [alias for alias, canonical in rename_map.items()
\*  if self._normalize(canonical) in map(self._normalize, df.columns)
\*  and alias != canonical]
collisions_of(rename_map, cols) ==
    LET folded == {_normalize(c) : c \in Range(cols)}
        hit == SelectSeq(rename_map,
                   LAMBDA kv : _normalize(kv[2]) \in folded /\ kv[1] # kv[2])
    IN [i \in 1..Len(hit) |-> hit[i][1]]

\* for a in collisions: rename_map.pop(a, None)
RECURSIVE pop_all(_, _)
pop_all(d, ks) ==
    IF ks = <<>> THEN d ELSE pop_all(dict_pop(d, Head(ks)), Tail(ks))

\* a plausible slip: the rename is applied before the collisions are looked at
to_canonical_rename_first(al, t, inplace, drop_conflicts, remember) ==
    LET target == IF inplace THEN t ELSE copy(t)
        rename_map == rename_map_of(al, t.columns, <<>>)
        collisions == collisions_of(rename_map, t.columns)
        early == rename(target, rename_map)
    IN IF collisions # <<>> /\ ~drop_conflicts
       THEN [err |-> CollisionError, df |-> IF inplace THEN early ELSE t, ret |-> <<>>]
       ELSE LET pruned == pop_all(rename_map, collisions)
                renamed == rename(target, pruned)
                out == IF remember
                       THEN [renamed EXCEPT !.attrs = (_ATTR_KEY :> pruned)]
                       ELSE renamed
            IN [err |-> NoError,
                df |-> IF inplace THEN out ELSE t,
                ret |-> <<out>>]

\* a plausible slip: drop_conflicts silences the error but pops nothing
to_canonical_keep_collisions(al, t, inplace, drop_conflicts, remember) ==
    LET target == IF inplace THEN t ELSE copy(t)
        rename_map == rename_map_of(al, t.columns, <<>>)
        collisions == collisions_of(rename_map, t.columns)
    IN IF collisions # <<>> /\ ~drop_conflicts
       THEN [err |-> CollisionError, df |-> t, ret |-> <<>>]
       ELSE LET renamed == rename(target, rename_map)
                out == IF remember
                       THEN [renamed EXCEPT !.attrs = (_ATTR_KEY :> rename_map)]
                       ELSE renamed
            IN [err |-> NoError,
                df |-> IF inplace THEN out ELSE t,
                ret |-> <<out>>]

\* dict.update: the items of e set into d in order
RECURSIVE dict_update(_, _)
dict_update(d, e) ==
    IF e = <<>> THEN d
    ELSE dict_update(dict_set(d, Head(e)[1], Head(e)[2]), Tail(e))

\* a plausible slip: the record is merged into the one already stored
to_canonical_merges_record(al, t, inplace, drop_conflicts, remember) ==
    LET target == IF inplace THEN t ELSE copy(t)
        rename_map == rename_map_of(al, t.columns, <<>>)
        collisions == collisions_of(rename_map, t.columns)
    IN IF collisions # <<>> /\ ~drop_conflicts
       THEN [err |-> CollisionError, df |-> t, ret |-> <<>>]
       ELSE LET pruned == pop_all(rename_map, collisions)
                renamed == rename(target, pruned)
                old == IF _ATTR_KEY \in DOMAIN target.attrs
                       THEN target.attrs[_ATTR_KEY] ELSE <<>>
                out == IF remember
                       THEN [renamed EXCEPT !.attrs = (_ATTR_KEY :> dict_update(old, pruned))]
                       ELSE renamed
            IN [err |-> NoError,
                df |-> IF inplace THEN out ELSE t,
                ret |-> <<out>>]

\* to_canonical: the error raised, the DataFrame passed in as it is
\* afterwards (df) and the DataFrame returned (ret: <<>> when it raises)
to_canonical(al, t, inplace, drop_conflicts, remember) ==
    LET target == IF inplace THEN t ELSE copy(t)
        rename_map == rename_map_of(al, t.columns, <<>>)
        collisions == collisions_of(rename_map, t.columns)
    IN IF collisions # <<>> /\ ~drop_conflicts
       THEN [err |-> CollisionError, df |-> t, ret |-> <<>>]
       ELSE LET pruned == pop_all(rename_map, collisions)
                renamed == rename(target, pruned)
                out == IF remember
                       THEN [renamed EXCEPT !.attrs = (_ATTR_KEY :> pruned)]
                       ELSE renamed
            IN [err |-> NoError,
                df |-> IF inplace THEN out ELSE t,
                ret |-> <<out>>]

\* {canon: alias for alias, canon in alias_map.items()}
RECURSIVE reverse_of(_, _)
reverse_of(alias_map, d) ==
    IF alias_map = <<>> THEN d
    ELSE reverse_of(Tail(alias_map),
                    dict_set(d, Head(alias_map)[2], Head(alias_map)[1]))

\* a plausible slip: "if not alias_map", so that an empty record counts as none
restore_aliases_empty_is_missing(t, inplace, strict) ==
    LET target == IF inplace THEN t ELSE copy(t) IN
    IF _ATTR_KEY \notin DOMAIN target.attrs \/ target.attrs[_ATTR_KEY] = <<>>
    THEN IF strict
         THEN [err |-> MissingRecordError, df |-> t, ret |-> <<>>]
         ELSE [err |-> NoError, df |-> t, ret |-> <<target>>]
    ELSE LET out == rename(target, reverse_of(target.attrs[_ATTR_KEY], <<>>))
         IN [err |-> NoError,
             df |-> IF inplace THEN out ELSE t,
             ret |-> <<out>>]

\* a plausible slip: the rename is done on the DataFrame passed in and the
\* copy is returned
restore_aliases_renames_argument(t, inplace, strict) ==
    LET target == IF inplace THEN t ELSE copy(t) IN
    IF _ATTR_KEY \notin DOMAIN target.attrs
    THEN IF strict
         THEN [err |-> MissingRecordError, df |-> t, ret |-> <<>>]
         ELSE [err |-> NoError, df |-> t, ret |-> <<target>>]
    ELSE LET out == rename(target, reverse_of(target.attrs[_ATTR_KEY], <<>>))
         IN [err |-> NoError,
             df |-> rename(t, reverse_of(target.attrs[_ATTR_KEY], <<>>)),
             ret |-> <<out>>]

\* restore_aliases: the error raised, the DataFrame passed in as it is
\* afterwards and the DataFrame returned
restore_aliases(t, inplace, strict) ==
    LET target == IF inplace THEN t ELSE copy(t) IN
    IF _ATTR_KEY \notin DOMAIN target.attrs
    THEN IF strict
         THEN [err |-> MissingRecordError, df |-> t, ret |-> <<>>]
         ELSE [err |-> NoError, df |-> t, ret |-> <<target>>]
    ELSE LET out == rename(target, reverse_of(target.attrs[_ATTR_KEY], <<>>))
         IN [err |-> NoError,
             df |-> IF inplace THEN out ELSE t,
             ret |-> <<out>>]

----------------------------------------------------------------------------
(* Calls *)

Call(op, args, err, r) == [op |-> op, args |-> args, err |-> err, ret |-> r]

NoTable == [id |-> 0, columns |-> <<>>, attrs |-> EmptyDict]

\* the mappings a caller passes: aliases in any casing
Mappings == Dicts(AliasNames, CanonicalNames, MaxEntries)

\* the groups a caller passes: canonical -> aliases; one group of any
\* length, or several groups of at most one alias each
Groups ==
    {g \in Dicts(CanonicalNames, SeqUpTo(AliasNames, MaxEntries),
                 Cardinality(CanonicalNames)) :
        Len(g) <= 1 \/ \A i \in 1..Len(g) : Len(g[i][2]) <= 1}

\* the labels a caller passes to resolve: the names as str, and two labels
\* that are not str, one of them spelled like an alias
Labels == {str(n) : n \in Names} \cup {nonstr(<<"4", "2">>), nonstr(qty)}

\* the argument of resolve: None or a list of labels
LabelLists == {<<>>} \cup {<<l>> : l \in SeqUpTo(Labels, MaxLabels)}

\* the state after ColumnAliasManager(mapping, frozen=frz)
Init ==
    \E mapping \in Mappings, frz \in BOOLEAN :
        LET r == __init__(mapping, frz) IN
        /\ aliases = r.aliases
        /\ frozen = r.frozen
        /\ live = (r.err = NoError)
        /\ last = Call("__init__", <<mapping, frz>>, r.err, <<>>)
        /\ df = NoTable
        /\ ret = <<>>

AddAlias(alias, canon, overwrite) ==
    LET r == add_alias(aliases, frozen, alias, canon, overwrite) IN
    /\ live
    /\ aliases' = r.aliases
    /\ last' = Call("add_alias", <<alias, canon, overwrite>>, r.err, <<>>)
    /\ UNCHANGED <<frozen, live, df, ret>>

\* __setitem__: self.add_alias(alias, canonical)
SetItem(alias, canon) ==
    LET r == add_alias(aliases, frozen, alias, canon, FALSE) IN
    /\ live
    /\ aliases' = r.aliases
    /\ last' = Call("__setitem__", <<alias, canon, FALSE>>, r.err, <<>>)
    /\ UNCHANGED <<frozen, live, df, ret>>

AddAliases(mapping, overwrite) ==
    LET r == add_aliases(aliases, frozen, mapping, overwrite) IN
    /\ live
    /\ aliases' = r.aliases
    /\ last' = Call("add_aliases", <<mapping, overwrite>>, r.err, <<>>)
    /\ UNCHANGED <<frozen, live, df, ret>>

AddAliasGroups(groups, overwrite) ==
    LET r == add_alias_groups(aliases, frozen, groups, overwrite) IN
    /\ live
    /\ aliases' = r.aliases
    /\ last' = Call("add_alias_groups", <<groups, overwrite>>, r.err, <<>>)
    /\ UNCHANGED <<frozen, live, df, ret>>

RemoveAlias(alias) ==
    LET r == remove_alias(aliases, frozen, alias) IN
    /\ live
    /\ aliases' = r.aliases
    /\ last' = Call("remove_alias", <<alias>>, r.err, <<>>)
    /\ UNCHANGED <<frozen, live, df, ret>>

Clear ==
    LET r == clear(aliases, frozen) IN
    /\ live
    /\ aliases' = r.aliases
    /\ last' = Call("clear", <<>>, r.err, <<>>)
    /\ UNCHANGED <<frozen, live, df, ret>>

\* freeze
Freeze ==
    /\ live
    /\ frozen' = TRUE
    /\ last' = Call("freeze", <<>>, NoError, <<>>)
    /\ UNCHANGED <<aliases, live, df, ret>>

Canonical(name) ==
    /\ live
    /\ last' = Call("canonical", <<name>>, NoError, canonical(aliases, name))
    /\ UNCHANGED <<aliases, frozen, live, df, ret>>

Contains(alias) ==
    /\ live
    /\ last' = Call("__contains__", <<alias>>, NoError, __contains__(aliases, alias))
    /\ UNCHANGED <<aliases, frozen, live, df, ret>>

Resolve(columns) ==
    /\ live
    /\ last' = Call("resolve", <<columns>>, NoError, resolve(aliases, columns))
    /\ UNCHANGED <<aliases, frozen, live, df, ret>>

ToJson ==
    /\ live
    /\ \E items \in ItemOrders(aliases) :
          last' = Call("to_json", <<>>, NoError, to_json(items))
    /\ UNCHANGED <<aliases, frozen, live, df, ret>>

\* from_json on the text to_json just returned; ret is the new instance
FromJson ==
    /\ live
    /\ last.op = "to_json"
    /\ LET r == from_json(last.ret) IN
       last' = Call("from_json", <<last.ret>>, r.err,
                    [aliases |-> r.aliases, frozen |-> r.frozen])
    /\ UNCHANGED <<aliases, frozen, live, df, ret>>

Next ==
    \/ \E a \in AliasNames, c \in CanonicalNames, ow \in BOOLEAN : AddAlias(a, c, ow)
    \/ \E a \in AliasNames, c \in CanonicalNames : SetItem(a, c)
    \/ \E m \in Mappings, ow \in BOOLEAN : AddAliases(m, ow)
    \/ \E g \in Groups, ow \in BOOLEAN : AddAliasGroups(g, ow)
    \/ \E a \in AliasNames : RemoveAlias(a)
    \/ Clear
    \/ Freeze
    \/ \E n \in Names : Canonical(n)
    \/ \E a \in Names : Contains(a)
    \/ \E cs \in LabelLists : Resolve(cs)
    \/ ToJson
    \/ FromJson

Spec == Init /\ [][Next]_vars

----------------------------------------------------------------------------
(* The DataFrame helpers, on a registry as constructed *)

\* the state after mgr = ColumnAliasManager(mapping) and df = DataFrame(columns=cols)
InitTable ==
    \E mapping \in Mappings, cols \in SeqUpTo(Names, MaxCols) :
        LET r == __init__(mapping, FALSE) IN
        /\ r.err = NoError
        /\ aliases = r.aliases
        /\ frozen = r.frozen
        /\ live = TRUE
        /\ last = Call("DataFrame", <<cols>>, NoError, <<>>)
        /\ df = [id |-> 0, columns |-> cols, attrs |-> EmptyDict]
        /\ ret = <<>>

\* out = mgr.to_canonical(df, ...); ret keeps the last DataFrame returned
ToCanonical(inplace, drop_conflicts, remember) ==
    LET r == to_canonical(aliases, df, inplace, drop_conflicts, remember) IN
    /\ live
    /\ df' = r.df
    /\ ret' = IF r.err = NoError THEN r.ret ELSE ret
    /\ last' = Call("to_canonical", <<inplace, drop_conflicts, remember>>, r.err, <<>>)
    /\ UNCHANGED <<aliases, frozen, live>>

\* out = mgr.restore_aliases(df, ...)
RestoreAliases(inplace, strict) ==
    LET r == restore_aliases(df, inplace, strict) IN
    /\ live
    /\ df' = r.df
    /\ ret' = IF r.err = NoError THEN r.ret ELSE ret
    /\ last' = Call("restore_aliases", <<inplace, strict>>, r.err, <<>>)
    /\ UNCHANGED <<aliases, frozen, live>>

\* the caller chains: df = out
Rebind ==
    /\ live
    /\ ret # <<>>
    /\ df' = ret[1]
    /\ last' = Call("rebind", <<>>, NoError, <<>>)
    /\ UNCHANGED <<aliases, frozen, live, ret>>

NextTable ==
    \/ \E ip \in BOOLEAN, dc \in BOOLEAN, rm \in BOOLEAN : ToCanonical(ip, dc, rm)
    \/ \E ip \in BOOLEAN, st \in BOOLEAN : RestoreAliases(ip, st)
    \/ Rebind

TableSpec == InitTable /\ [][NextTable]_vars

----------------------------------------------------------------------------
(* Properties *)

\* the strings with the same case-folded form as a
Casings(a) == {n \in Names : casefold(n) = casefold(a)}

\* the aliases a batch call hands to add_alias
BatchAliases(call) ==
    IF call.op = "add_aliases"
    THEN {call.args[1][i][1] : i \in 1..Len(call.args[1])}
    ELSE UNION {Range(call.args[1][i][2]) : i \in 1..Len(call.args[1])}

\* the call removes, clears or overwrites the key of name n
TouchesKey(call, n) ==
    \/ call.op = "remove_alias" /\ casefold(call.args[1]) = casefold(n)
    \/ call.op = "clear"
    \/ call.op = "add_alias" /\ call.args[3] /\ casefold(call.args[1]) = casefold(n)
    \/ /\ call.op \in {"add_aliases", "add_alias_groups"}
       /\ call.args[2]
       /\ \E a \in BatchAliases(call) : casefold(a) = casefold(n)

\* C1: after a successful add_alias(a, c), canonical(a') = c and a' in mgr
\* for every a' with the case-folded form of a, and a registered name keeps
\* its canonical across every call that is not a remove_alias of its key, a
\* clear or an overwriting add of its key.
C1_AddThenLookupAnyCasing ==
    [][ /\ (last'.op = "add_alias" /\ last'.err = NoError) =>
              \A n \in Casings(last'.args[1]) :
                  /\ canonical(aliases', n) = last'.args[2]
                  /\ __contains__(aliases', n)
        /\ \A n \in Names :
              (__contains__(aliases, n) /\ ~TouchesKey(last', n)) =>
                  /\ __contains__(aliases', n)
                  /\ canonical(aliases', n) = canonical(aliases, n)
      ]_vars

\* C1 witness: add_alias("Qty", "quantity") succeeded and "qty" resolves to it
C1_Witness ==
    /\ last.op = "add_alias"
    /\ last.err = NoError
    /\ last.args[1] = Qty
    /\ last.args[2] = quantity
    /\ canonical(aliases, qty) = quantity

\* C2: on an unfrozen registry add_alias(a, c2) over fold(a) -> c1 with
\* c1 # c2 raises the conflict error and leaves the map alone when
\* overwrite is false, and rebinds every casing of a to c2 when overwrite
\* is true; with the key absent or c1 = c2 it succeeds with either flag.
C2_ConflictUnlessOverwrite ==
    [][ (last'.op = "add_alias" /\ ~frozen) =>
          LET a == last'.args[1]
              c2 == last'.args[2]
              overwrite == last'.args[3]
              key == casefold(a)
          IN IF key \in DOMAIN aliases /\ aliases[key] # c2
             THEN IF overwrite
                  THEN /\ last'.err = NoError
                       /\ \A n \in Casings(a) : canonical(aliases', n) = c2
                  ELSE /\ last'.err = ConflictError
                       /\ aliases' = aliases
                       /\ canonical(aliases', a) = aliases[key]
             ELSE /\ last'.err = NoError
                  /\ canonical(aliases', a) = c2
      ]_vars

\* C2 witness: an add_alias without overwrite hit "qty" bound to another name
C2_Witness ==
    /\ last.op = "add_alias"
    /\ last.err = ConflictError
    /\ ~last.args[3]
    /\ qty \in DOMAIN aliases
    /\ aliases[qty] # last.args[2]

\* C3: freeze never raises, a second freeze changes nothing, and once the
\* registry is frozen the flag stays set and the map stays as it is.
C3_FrozenForever ==
    [][ /\ frozen => (frozen' /\ aliases' = aliases)
        /\ last'.op = "freeze" =>
              (last'.err = NoError /\ frozen' /\ aliases' = aliases /\ live' = live)
      ]_vars

\* C3 witness: a mutator was refused on a frozen, non-empty registry
C3_Witness ==
    /\ frozen
    /\ last.op \in {"add_alias", "remove_alias", "clear"}
    /\ last.err = FrozenError
    /\ DOMAIN aliases # {}

\* the labels of cols are pairwise distinct
Distinct(cols) == \A i, j \in 1..Len(cols) : i # j => cols[i] # cols[j]

\* C4: when to_canonical(remember=True) succeeds on a DataFrame with
\* distinct labels, restore_aliases on the DataFrame it returns yields the
\* original labels in the original order.
C4_RenameRestoreRoundTrip ==
    [][ ( /\ last'.op = "to_canonical"
          /\ last'.err = NoError
          /\ last'.args[3]
          /\ Distinct(df.columns) ) =>
            \A inplace \in BOOLEAN, strict \in BOOLEAN :
                LET back == restore_aliases(ret'[1], inplace, strict)
                IN /\ back.err = NoError
                   /\ back.ret[1].columns = df.columns
      ]_vars

\* label i of cols is an alias whose rename collides: it is registered, its
\* canonical differs from it, and the canonical's case-folded form is the
\* case-folded form of a label of cols
Collides(al, cols, i) ==
    /\ casefold(cols[i]) \in DOMAIN al
    /\ al[casefold(cols[i])] # cols[i]
    /\ \E j \in 1..Len(cols) : casefold(cols[j]) = casefold(al[casefold(cols[i])])

\* C5: to_canonical with drop_conflicts=False on a DataFrame with a
\* colliding rename raises the collision error and leaves the DataFrame
\* passed in (labels and attrs) as it was, also with inplace=True.
C5_CollisionLeavesTableAlone ==
    [][ ( /\ last'.op = "to_canonical"
          /\ ~last'.args[2]
          /\ \E i \in 1..Len(df.columns) : Collides(aliases, df.columns, i) ) =>
            /\ last'.err = CollisionError
            /\ df' = df
            /\ ret' = ret
      ]_vars

\* C5 witness: an in-place to_canonical was refused on a DataFrame that
\* carried an earlier rename record
C5_Witness ==
    /\ last.op = "to_canonical"
    /\ last.err = CollisionError
    /\ last.args[1]
    /\ _ATTR_KEY \in DOMAIN df.attrs

\* C6: from_json(to_json(mgr)) succeeds and yields a registry with the map
\* of mgr, so canonical answers alike for every name in any casing.
C6_JsonRoundTrip ==
    last.op = "from_json" =>
        /\ last.err = NoError
        /\ last.args[1] \in {to_json(items) : items \in ItemOrders(aliases)}
        /\ last.ret.aliases = aliases
        /\ \A n \in Names : canonical(last.ret.aliases, n) = canonical(aliases, n)

\* C6 witness: a frozen registry of two aliases went through to_json and from_json
C6_Witness ==
    /\ last.op = "from_json"
    /\ frozen
    /\ Cardinality(DOMAIN aliases) = 2

\* C7 as claimed: canonical(x) is x when the case-folded x is no key; in
\* every reachable state remove_alias of an absent alias raises nothing and
\* changes nothing, and remove_alias of a present alias removes that key only.
C7_PassThroughAndRemove ==
    [][ /\ \A n \in Names :
              casefold(n) \notin DOMAIN aliases' => canonical(aliases', n) = n
        /\ last'.op = "canonical" =>
              (casefold(last'.args[1]) \notin DOMAIN aliases' =>
                   last'.ret = last'.args[1])
        /\ last'.op = "remove_alias" =>
              /\ last'.err = NoError
              /\ DOMAIN aliases' = DOMAIN aliases \ {casefold(last'.args[1])}
              /\ \A k \in DOMAIN aliases' : aliases'[k] = aliases[k]
      ]_vars

\* C7 amended: the same, for remove_alias on an unfrozen registry; on a
\* frozen one remove_alias raises the frozen error and changes nothing.
C7_PassThroughAndRemoveUnfrozen ==
    [][ /\ \A n \in Names :
              casefold(n) \notin DOMAIN aliases' => canonical(aliases', n) = n
        /\ last'.op = "canonical" =>
              (casefold(last'.args[1]) \notin DOMAIN aliases' =>
                   last'.ret = last'.args[1])
        /\ (last'.op = "remove_alias" /\ ~frozen) =>
              /\ last'.err = NoError
              /\ DOMAIN aliases' = DOMAIN aliases \ {casefold(last'.args[1])}
              /\ \A k \in DOMAIN aliases' : aliases'[k] = aliases[k]
        /\ (last'.op = "remove_alias" /\ frozen) =>
              /\ last'.err = FrozenError
              /\ aliases' = aliases
      ]_vars

\* C7 witness: "Qty" was looked up after its key was removed, with another
\* alias still registered
C7_Witness ==
    /\ last.op = "canonical"
    /\ last.args[1] = Qty
    /\ last.ret = Qty
    /\ qty \notin DOMAIN aliases
    /\ amt \in DOMAIN aliases

\* C8: ColumnAliasManager(mapping, frozen=True) with a non-empty mapping
\* does not raise the frozen error, and yields a frozen registry that holds
\* the entries of the mapping.
C8_FrozenConstruction ==
    (last.op = "__init__" /\ last.args[1] # <<>> /\ last.args[2]) =>
        /\ last.err # FrozenError
        /\ last.err = NoError =>
              /\ live
              /\ frozen
              /\ \A i \in 1..Len(last.args[1]) :
                    canonical(aliases, last.args[1][i][1]) = last.args[1][i][2]

Mutators == {"add_alias", "__setitem__", "add_aliases", "add_alias_groups",
             "remove_alias", "clear"}

\* C9 as claimed: every mutating call on a frozen registry raises the frozen
\* error, whatever its arguments.
C9_FrozenRefusesAll ==
    [][ (frozen /\ last'.op \in Mutators) => last'.err = FrozenError ]_vars

\* C9 amended: on a frozen registry add_alias, remove_alias and clear raise
\* the frozen error for every argument; add_aliases and add_alias_groups
\* raise it when they hand at least one alias to add_alias, and return
\* normally otherwise; in every case the map stays as it is.
C9_FrozenRefusesEachAdd ==
    [][ (frozen /\ last'.op \in Mutators) =>
          /\ aliases' = aliases
          /\ last'.op \in {"add_alias", "__setitem__", "remove_alias", "clear"} =>
                last'.err = FrozenError
          /\ last'.op \in {"add_aliases", "add_alias_groups"} =>
                last'.err = (IF BatchAliases(last') # {} THEN FrozenError ELSE NoError)
      ]_vars

\* C9 witness: add_aliases with one entry was refused on a frozen registry
C9_Witness ==
    /\ frozen
    /\ last.op = "add_aliases"
    /\ Len(last.args[1]) = 1
    /\ last.err = FrozenError

\* the rename map to_canonical is left with under drop_conflicts=True: the
\* registered labels of cols that do not collide, each with its canonical
PrunedPairs(al, cols) ==
    {<<cols[i], al[casefold(cols[i])]>> :
        i \in {j \in 1..Len(cols) :
                  casefold(cols[j]) \in DOMAIN al /\ ~Collides(al, cols, j)}}

InverseOf(record, c) ==
    LET hits == {i \in 1..Len(record) : record[i][2] = c}
    IN IF hits = {} THEN c
       ELSE record[CHOOSE i \in hits : \A j \in hits : j <= i][1]

\* C11: the record under "alias_map" on the DataFrame a to_canonical with
\* remember=True returns is the rename map of that call alone, whatever
\* record was there (also when the map is empty); with remember=False the
\* record is the one the DataFrame passed in had; restore_aliases inverts
\* the record it finds and nothing else.
C11_RecordIsLastRenameOnly ==
    [][ /\ (last'.op = "to_canonical" /\ last'.err = NoError) =>
              LET out == ret'[1] IN
              IF last'.args[3]
              THEN /\ _ATTR_KEY \in DOMAIN out.attrs
                   /\ Distinct(out.attrs[_ATTR_KEY])
                   /\ Range(out.attrs[_ATTR_KEY]) = PrunedPairs(aliases, df.columns)
                   /\ \A i \in 1..Len(df.columns) :
                         out.columns[i] =
                            dict_get(out.attrs[_ATTR_KEY], df.columns[i], df.columns[i])
              ELSE out.attrs = df.attrs
        /\ (last'.op = "restore_aliases" /\ _ATTR_KEY \in DOMAIN df.attrs) =>
              /\ last'.err = NoError
              /\ Len(ret'[1].columns) = Len(df.columns)
              /\ \A i \in 1..Len(df.columns) :
                    ret'[1].columns[i] = InverseOf(df.attrs[_ATTR_KEY], df.columns[i])
              /\ ret'[1].attrs = df.attrs
      ]_vars

\* C11 witness: the DataFrame passed in carried a non-empty record and the
\* DataFrame returned with remember=True carries an empty one
C11_Witness ==
    /\ last.op = "to_canonical"
    /\ last.err = NoError
    /\ ~last.args[1]
    /\ last.args[3]
    /\ _ATTR_KEY \in DOMAIN df.attrs
    /\ df.attrs[_ATTR_KEY] # <<>>
    /\ ret[1].attrs[_ATTR_KEY] = <<>>

\* C12: restore_aliases on a DataFrame without a rename record raises the
\* missing-record error with strict=True and leaves the DataFrame as it
\* was; with strict=False it raises nothing and returns the same labels.
\* An empty record is a record: nothing is raised and nothing is renamed.
C12_MissingRecord ==
    [][ last'.op = "restore_aliases" =>
          IF _ATTR_KEY \notin DOMAIN df.attrs
          THEN IF last'.args[2]
               THEN /\ last'.err = MissingRecordError
                    /\ df' = df
                    /\ ret' = ret
               ELSE /\ last'.err = NoError
                    /\ ret'[1].columns = df.columns
                    /\ ret'[1].attrs = df.attrs
                    /\ df' = df
          ELSE df.attrs[_ATTR_KEY] = <<>> =>
                    /\ last'.err = NoError
                    /\ ret'[1].columns = df.columns
                    /\ df'.columns = df.columns
      ]_vars

\* C12 witness: a strict restore_aliases went through on an empty record
C12_Witness ==
    /\ last.op = "restore_aliases"
    /\ last.args[2]
    /\ last.err = NoError
    /\ _ATTR_KEY \in DOMAIN df.attrs
    /\ df.attrs[_ATTR_KEY] = <<>>
    /\ df.columns # <<>>

\* C13: with inplace=False to_canonical and restore_aliases leave the
\* DataFrame passed in (labels and attrs) as it was and return another
\* object; with inplace=True they return the object passed in.
C13_InplaceFrame ==
    [][ (last'.op \in {"to_canonical", "restore_aliases"} /\ last'.err = NoError) =>
          IF last'.args[1]
          THEN /\ ret'[1].id = df.id
               /\ ret'[1] = df'
          ELSE /\ df' = df
               /\ ret'[1].id # df.id
      ]_vars

\* C13 witness: a copy was renamed back while the DataFrame passed in kept
\* its canonical labels and its record
C13_Witness ==
    /\ last.op = "restore_aliases"
    /\ ~last.args[1]
    /\ last.err = NoError
    /\ _ATTR_KEY \in DOMAIN df.attrs
    /\ ret[1].columns # df.columns
    /\ ret[1].id # df.id

\* C14: resolve(labels) returns a list of the same length and order whose
\* position i holds canonical(labels[i]) when labels[i] is a str and
\* labels[i] itself when it is not; resolve(None) is None, not an empty
\* list, and resolve([]) is an empty list, not None.
C14_Resolve ==
    last.op = "resolve" =>
        LET columns == last.args[1]
            out == last.ret
        IN /\ last.err = NoError
           /\ IF columns = <<>>
              THEN out = <<>>
              ELSE /\ Len(out) = 1
                   /\ Len(out[1]) = Len(columns[1])
                   /\ \A i \in 1..Len(columns[1]) :
                         LET col == columns[1][i] IN
                         IF col.str
                         THEN /\ out[1][i].str
                              /\ out[1][i].v =
                                    IF casefold(col.v) \in DOMAIN aliases
                                    THEN aliases[casefold(col.v)]
                                    ELSE col.v
                         ELSE out[1][i] = col

\* C14 witness: in one call a str label got its canonical name while a
\* label that is not a str, spelled like a registered alias, came back as is
C14_Witness ==
    /\ last.op = "resolve"
    /\ last.args[1] # <<>>
    /\ \E i, j \in 1..Len(last.args[1][1]) :
          /\ last.args[1][1][i].str
          /\ last.ret[1][i] # last.args[1][1][i]
          /\ ~last.args[1][1][j].str
          /\ last.args[1][1][j].v \in DOMAIN aliases
          /\ last.ret[1][j] = last.args[1][1][j]

\* label i of cols is an alias whose canonical differs from it and has the
\* case-folded form of another label of cols, different from label i
CollidesOther(al, cols, i) ==
    /\ casefold(cols[i]) \in DOMAIN al
    /\ al[casefold(cols[i])] # cols[i]
    /\ \E j \in 1..Len(cols) :
          /\ cols[j] # cols[i]
          /\ casefold(cols[j]) = casefold(al[casefold(cols[i])])

\* C15: to_canonical treats alias -> canonical as a collision exactly when
\* alias != canonical and the canonical's case-folded form is that of some
\* other column label; so with drop_conflicts=False it raises exactly when
\* there is such an entry, and a rename that only changes the casing of a
\* column is applied.
C15_CollisionOnlyWithOtherLabel ==
    [][ (last'.op = "to_canonical" /\ ~last'.args[2]) =>
          /\ last'.err = CollisionError <=>
                \E i \in 1..Len(df.columns) : CollidesOther(aliases, df.columns, i)
          /\ (df.columns = <<qty>> /\ aliases = (qty :> Qty)) =>
                /\ last'.err = NoError
                /\ ret'[1].columns = <<Qty>>
      ]_vars

\* the call is an add made with overwrite=True
OverwritingAdd(call) ==
    \/ call.op = "add_alias" /\ call.args[3]
    \/ call.op \in {"add_aliases", "add_alias_groups"} /\ call.args[2]

\* C16: across every call, a key present before and after keeps its
\* canonical unless the call is an add_alias, add_aliases or
\* add_alias_groups made with overwrite=True (mgr[alias] = c never is).
C16_NoRebindWithoutOverwrite ==
    [][ \A k \in DOMAIN aliases \cap DOMAIN aliases' :
           aliases'[k] # aliases[k] => OverwritingAdd(last')
      ]_vars

\* C16 witness: mgr[alias] = c was refused for a key bound to another
\* canonical, which is still bound
C16_Witness ==
    /\ last.op = "__setitem__"
    /\ last.err = ConflictError
    /\ casefold(last.args[1]) \in DOMAIN aliases
    /\ aliases[casefold(last.args[1])] # last.args[2]

\* the <<alias, canonical>> pairs of add_alias_groups(groups), in the order
\* of the loops
RECURSIVE Flatten(_)
Flatten(groups) ==
    IF groups = <<>> THEN <<>>
    ELSE [i \in 1..Len(Head(groups)[2]) |-> <<Head(groups)[2][i], Head(groups)[1]>>]
         \o Flatten(Tail(groups))

\* the <<alias, canonical>> pairs a batch call hands to add_alias, in order
Entries(call) ==
    IF call.op = "add_aliases" THEN call.args[1] ELSE Flatten(call.args[1])

\* the map al with the first n of the entries bound, a later one over an
\* earlier one of the same key
AfterPrefix(al, entries, n) ==
    [k \in DOMAIN al \cup {casefold(entries[i][1]) : i \in 1..n} |->
        LET hits == {i \in 1..n : casefold(entries[i][1]) = k}
        IN IF hits = {} THEN al[k]
           ELSE entries[CHOOSE i \in hits : \A j \in hits : j <= i][2]]

\* C17: when add_aliases or add_alias_groups raises the conflict error, the
\* entries before the failing one are bound, the failing entry and those
\* after it are not, and the map is not rolled back.
C17_BatchNotAtomic ==
    [][ (last'.op \in {"add_aliases", "add_alias_groups"}
            /\ last'.err = ConflictError) =>
          LET entries == Entries(last') IN
          \E n \in 0..(Len(entries) - 1) :
             LET mid == AfterPrefix(aliases, entries, n)
                 key == casefold(entries[n + 1][1])
             IN /\ aliases' = mid
                /\ ~last'.args[2]
                /\ key \in DOMAIN mid
                /\ mid[key] # entries[n + 1][2]
                /\ aliases'[key] # entries[n + 1][2]
      ]_vars

\* C17 witness: add_aliases raised on its second entry and the first entry,
\* of another key, is bound
C17_Witness ==
    /\ last.op = "add_aliases"
    /\ last.err = ConflictError
    /\ Len(last.args[1]) = 2
    /\ casefold(last.args[1][1][1]) # casefold(last.args[1][2][1])
    /\ casefold(last.args[1][1][1]) \in DOMAIN aliases
    /\ aliases[casefold(last.args[1][1][1])] = last.args[1][1][2]
    /\ aliases[casefold(last.args[1][2][1])] # last.args[1][2][2]

\* label i of cols is a no-op rename: it is registered and is its own
\* canonical
NoOpRename(al, cols, i) ==
    /\ casefold(cols[i]) \in DOMAIN al
    /\ al[casefold(cols[i])] = cols[i]

\* C18 as stated: with a no-op rename in the DataFrame and another column
\* matching its canonical case-insensitively, to_canonical with
\* drop_conflicts=False succeeds and the no-op entry is in the stored
\* record.
C18_NoOpThenSucceeds ==
    [][ (last'.op = "to_canonical" /\ ~last'.args[2]) =>
          \A i \in 1..Len(df.columns) :
             ( /\ NoOpRename(aliases, df.columns, i)
               /\ \E j \in 1..Len(df.columns) :
                     j # i /\ casefold(df.columns[j]) = casefold(df.columns[i]) ) =>
                /\ last'.err = NoError
                /\ last'.args[3] =>
                      <<df.columns[i], df.columns[i]>>
                          \in Range(ret'[1].attrs[_ATTR_KEY])
      ]_vars

\* C18 amended: a no-op rename is never flagged: it is in the record of
\* every successful to_canonical with remember=True (drop_conflicts=True
\* does not prune it), its column keeps its label, and a DataFrame whose
\* registered columns are all no-op renames passes with
\* drop_conflicts=False. A column with another label and the same
\* case-folded form is a colliding alias itself, so to_canonical with
\* drop_conflicts=False then raises the collision error.
C18_NoOpNeverFlagged ==
    [][ last'.op = "to_canonical" =>
          LET cols == df.columns IN
          /\ \A i \in 1..Len(cols) :
                NoOpRename(aliases, cols, i) =>
                   /\ last'.args[2] => last'.err = NoError
                   /\ last'.err = NoError => ret'[1].columns[i] = cols[i]
                   /\ (last'.err = NoError /\ last'.args[3]) =>
                         <<cols[i], cols[i]>> \in Range(ret'[1].attrs[_ATTR_KEY])
                   /\ ( /\ ~last'.args[2]
                        /\ \E j \in 1..Len(cols) :
                              /\ cols[j] # cols[i]
                              /\ casefold(cols[j]) = casefold(cols[i]) ) =>
                         last'.err = CollisionError
          /\ ( /\ ~last'.args[2]
               /\ \A j \in 1..Len(cols) :
                     casefold(cols[j]) \in DOMAIN aliases =>
                        NoOpRename(aliases, cols, j) ) =>
                last'.err = NoError
      ]_vars

\* C18 witness: to_canonical with drop_conflicts=True kept the no-op entry
\* Qty -> Qty in the record of a DataFrame that also has a column qty
C18_Witness ==
    /\ last.op = "to_canonical"
    /\ last.err = NoError
    /\ last.args[2]
    /\ last.args[3]
    /\ qty \in DOMAIN aliases
    /\ aliases[qty] = Qty
    /\ Qty \in Range(df.columns)
    /\ qty \in Range(df.columns)
    /\ <<Qty, Qty>> \in Range(ret[1].attrs[_ATTR_KEY])
    /\ <<qty, Qty>> \notin Range(ret[1].attrs[_ATTR_KEY])

\* C19: when to_canonical succeeds on a DataFrame with pairwise distinct
\* column labels, the labels of the result are pairwise distinct.
C19_DistinctLabelsStayDistinct ==
    [][ ( /\ last'.op = "to_canonical"
          /\ last'.err = NoError
          /\ Distinct(df.columns) ) =>
            Distinct(ret'[1].columns)
      ]_vars

=============================================================================
